---- MODULE Spec2Model ----
(***************************************************************************)
(* A model of the SecretSanta exchange (secret_santa.py) and of its        *)
(* persistence helpers (secret_santa_utilities.py).                        *)
(*                                                                         *)
(* A Python dict whose iteration order the program observes (_people,      *)
(* _pointer, the tables of a snapshot) is a sequence of <<key, value>>     *)
(* pairs in insertion order.  _wishlist is only ever read and written by   *)
(* key, so it is a function from its keys to sequences of wishes.          *)
(* randomize_pointer is modelled statement by statement, because it can    *)
(* raise and can loop for ever; the other methods are one step each.       *)
(***************************************************************************)
EXTENDS Integers, Sequences, FiniteSets, TLC

\* ---------------------------------------------------------------- bounds
MaxWishes == 2
MaxCalls == 4

\* the ids of the doctests
Ids == {3, 20, 24}
Names == {"JP", "Nick"}
Wishes == {"Gold earrings", "Love book"}
ExchangeNames == {"Christmas 2023"}
BudgetArgs == {[type |-> "int", val |-> 20]}

\* Python's None, as a pointer value; every id is positive
None == -1

\* ------------------------------------------------ insertion-ordered dict
Keys(d) == {d[i][1] : i \in 1..Len(d)}

KeyList(d) == [i \in 1..Len(d) |-> d[i][1]]

Values(d) == {d[i][2] : i \in 1..Len(d)}

Get(d, k) == d[CHOOSE i \in 1..Len(d) : d[i][1] = k][2]

\* d[k] = v: an existing key keeps its position, a new key goes last
Put(d, k, v) ==
    IF k \in Keys(d)
    THEN [i \in 1..Len(d) |-> IF d[i][1] = k THEN <<k, v>> ELSE d[i]]
    ELSE Append(d, <<k, v>>)

Pop(d, k) == SelectSeq(d, LAMBDA e : e[1] # k)

\* list.remove(x) forgotten: the drawn id stays in the pool
ListRemoveKeeps(l, x) == l

\* list.remove(x): drops the first occurrence of x
ListRemove(l, x) ==
    LET i == CHOOSE j \in 1..Len(l) : l[j] = x /\ \A h \in 1..(j - 1) : l[h] # x
    IN  SubSeq(l, 1, i - 1) \o SubSeq(l, i + 1, Len(l))

Elems(l) == {l[i] : i \in 1..Len(l)}

RECURSIVE Perms(_)
Perms(S) ==
    IF S = {} THEN {<< >>}
    ELSE UNION {{<<x>> \o p : p \in Perms(S \ {x})} : x \in S}

\* ------------------------------------------------------------ conversions
\* float(budget)
Float(x) == [type |-> "float", val |-> x.val]

\* str(person) for a non-negative int: its decimal digits
RECURSIVE Str(_)
Str(n) == IF n < 10 THEN <<n>> ELSE Append(Str(n \div 10), n % 10)

\* int(person) for a string of decimal digits
RECURSIVE Int_(_)
Int_(s) == IF Len(s) = 0 THEN 0 ELSE 10 * Int_(SubSeq(s, 1, Len(s) - 1)) + s[Len(s)]

\* a str never compares equal to an int
StrEqInt(s, i) == FALSE

\* `user in self._wishlist`: user is a name, the keys are ids
InWishlist(user, wl) == \E k \in DOMAIN wl : StrEqInt(user, k)

\* ------------------------------------------------------------------ state
VARIABLES name, budget, people, wishlist, pointer,
          pc, people_ids, it, rand,
          op, arg, result, pre_full, calls

vars == <<name, budget, people, wishlist, pointer,
          pc, people_ids, it, rand, op, arg, result, pre_full, calls>>

Self == [name |-> name, budget |-> budget, people |-> people,
         wishlist |-> wishlist, pointer |-> pointer]

\* SecretSanta.__init__
NewSecretSanta(n, b) ==
    [name |-> n, budget |-> Float(b), people |-> << >>,
     wishlist |-> << >>, pointer |-> << >>]

\* ---------------------------------------------------------------- methods
add_user(self, user, user_id) ==
    IF ~InWishlist(user, self.wishlist)
    THEN [self |-> [self EXCEPT
                      !.people = Put(self.people, user_id, user),
                      !.wishlist = [k \in DOMAIN self.wishlist \cup {user_id} |->
                                      IF k = user_id THEN << >> ELSE self.wishlist[k]],
                      !.pointer = Put(self.pointer, user_id, None)],
          ret |-> "True"]
    ELSE [self |-> self, ret |-> "False"]

\* the wish inserted at the front instead of appended
add_wish_in_front(self, user_id, wish) ==
    IF user_id \in Keys(self.people)
    THEN [self EXCEPT !.wishlist[user_id] = <<wish>> \o self.wishlist[user_id]]
    ELSE self

add_wish(self, user_id, wish) ==
    IF user_id \in Keys(self.people)
    THEN [self EXCEPT !.wishlist[user_id] = Append(self.wishlist[user_id], wish)]
    ELSE self

is_valid_pointer(self, new_pointer) ==
    LET keys == Keys(new_pointer)
        values == Values(new_pointer)
    IN  IF keys # values \/ keys # Keys(self.pointer)
        THEN FALSE
        ELSE \A i \in 1..Len(new_pointer) :
                ~(new_pointer[i][1] = new_pointer[i][2]
                  \/ (new_pointer[i][2] \notin keys /\ new_pointer[i][2] # None))

\* the validation skipped: whatever is passed is installed
set_pointer_unchecked(self, new_pointer) ==
    [self |-> [self EXCEPT !.pointer = new_pointer], ret |-> "True"]

set_pointer(self, new_pointer) ==
    IF is_valid_pointer(self, new_pointer)
    THEN [self |-> [self EXCEPT !.pointer = new_pointer], ret |-> "True"]
    ELSE [self |-> self, ret |-> "False"]

\* to_dict: the three tables are built in the iteration order of _people
to_dict(self) ==
    [name |-> self.name,
     budget |-> self.budget,
     people |-> [i \in 1..Len(self.people) |->
                   <<Str(self.people[i][1]), self.people[i][2]>>],
     wishlist |-> [i \in 1..Len(self.people) |->
                   <<Str(self.people[i][1]), self.wishlist[self.people[i][1]]>>],
     pointer |-> [i \in 1..Len(self.people) |->
                   <<Str(self.people[i][1]), Get(self.pointer, self.people[i][1])>>]]

\* load_exchange, the loop over one person's saved wishes
RECURSIVE AddWishes(_, _, _, _)
AddWishes(self, user_id, saved, j) ==
    IF j > Len(saved) THEN self
    ELSE AddWishes(add_wish(self, user_id, saved[j]), user_id, saved, j + 1)

\* load_exchange, the loop over the saved people, then set_pointer
RECURSIVE LoadLoop(_, _, _, _)
LoadLoop(d, secret_santa, new_pointer, i) ==
    IF i > Len(d.people)
    THEN set_pointer(secret_santa, new_pointer).self
    ELSE LET person == d.people[i][1]
             added == add_user(secret_santa, d.people[i][2], Int_(person)).self
         IN  LoadLoop(d,
                      AddWishes(added, Int_(person), Get(d.wishlist, person), 1),
                      Put(new_pointer, Int_(person), Get(d.pointer, person)),
                      i + 1)

\* load_exchange, from the parsed snapshot on
load_exchange(d) == LoadLoop(d, NewSecretSanta(d.name, d.budget), << >>, 1)

\* ------------------------------------------------------------ the callers
Full(p) == p # << >> /\ None \notin Values(p)

Commit(self) ==
    /\ name' = self.name
    /\ budget' = self.budget
    /\ people' = self.people
    /\ wishlist' = self.wishlist
    /\ pointer' = self.pointer

\* a call of a public method starts here
Call(o, a) ==
    /\ pc = "idle"
    /\ calls < MaxCalls
    /\ calls' = calls + 1
    /\ op' = o
    /\ arg' = a
    /\ pre_full' = Full(pointer)

NoLocals == people_ids' = << >> /\ it' = 0 /\ rand' = None

Init ==
    /\ \E n \in ExchangeNames, b \in BudgetArgs :
          /\ name = NewSecretSanta(n, b).name
          /\ budget = NewSecretSanta(n, b).budget
          /\ people = NewSecretSanta(n, b).people
          /\ wishlist = NewSecretSanta(n, b).wishlist
          /\ pointer = NewSecretSanta(n, b).pointer
    /\ pc = "idle"
    /\ people_ids = << >>
    /\ it = 0
    /\ rand = None
    /\ op = "__init__"
    /\ arg = None
    /\ result = "None"
    /\ pre_full = FALSE
    /\ calls = 0

AddUser(user, user_id) ==
    /\ Call("add_user", user_id)
    /\ Commit(add_user(Self, user, user_id).self)
    /\ result' = add_user(Self, user, user_id).ret
    /\ UNCHANGED <<pc, people_ids, it, rand>>

AddWish(user_id, wish) ==
    /\ Call("add_wish", user_id)
    /\ user_id \in DOMAIN wishlist => Len(wishlist[user_id]) < MaxWishes
    /\ Commit(add_wish(Self, user_id, wish))
    /\ result' = "None"
    /\ UNCHANGED <<pc, people_ids, it, rand>>

\* randomize_pointer, line 110
EnterRandomize(ppl) ==
    /\ people_ids' = KeyList(ppl)
    /\ it' = 1
    /\ rand' = None
    /\ pc' = "for"
    /\ result' = "running"

\* the re-randomization run even when user_id is not a participant
RemoveUserAlwaysRandomizes(user_id) ==
    /\ Call("remove_user", user_id)
    /\ UNCHANGED <<name, budget, wishlist, pointer>>
    /\ people' = Pop(people, user_id)
    /\ EnterRandomize(Pop(people, user_id))

RemoveUser(user_id) ==
    /\ Call("remove_user", user_id)
    /\ UNCHANGED <<name, budget, wishlist, pointer>>
    /\ IF user_id \in Keys(people)
       THEN /\ people' = Pop(people, user_id)
            /\ IF pointer # << >>
               THEN EnterRandomize(Pop(people, user_id))
               ELSE result' = "True" /\ UNCHANGED <<pc, people_ids, it, rand>>
       ELSE /\ result' = "False"
            /\ UNCHANGED <<people, pc, people_ids, it, rand>>

RandomizePointer ==
    /\ Call("randomize_pointer", None)
    /\ EnterRandomize(people)
    /\ UNCHANGED <<name, budget, people, wishlist, pointer>>

\* the person the for loop of randomize_pointer is at
Person == pointer[it][1]

\* line 113, random.choice on a non-empty list
Choice ==
    /\ pc = "for"
    /\ it <= Len(pointer)
    /\ people_ids # << >>
    /\ \E r \in Elems(people_ids) : rand' = r
    /\ pc' = "while"
    /\ UNCHANGED <<name, budget, people, wishlist, pointer, people_ids, it,
                   op, arg, result, pre_full, calls>>

\* line 113, random.choice on an empty list raises IndexError, which neither
\* randomize_pointer nor remove_user catches
RaiseIndexError ==
    /\ pc = "for"
    /\ it <= Len(pointer)
    /\ people_ids = << >>
    /\ pc' = "idle"
    /\ result' = "IndexError"
    /\ NoLocals
    /\ UNCHANGED <<name, budget, people, wishlist, pointer, op, arg, pre_full, calls>>

\* lines 115-116, the draw is the person itself: draw again
Redraw ==
    /\ pc = "while"
    /\ rand = Person
    /\ \E r \in Elems(people_ids) : rand' = r
    /\ UNCHANGED <<name, budget, people, wishlist, pointer, pc, people_ids, it,
                   op, arg, result, pre_full, calls>>

\* the drawn id taken out of _people itself, not out of the copied list
AssignPopsPeople ==
    /\ pc = "while"
    /\ rand # Person
    /\ people_ids' = ListRemove(people_ids, rand)
    /\ people' = Pop(people, rand)
    /\ pointer' = Put(pointer, Person, rand)
    /\ it' = it + 1
    /\ rand' = None
    /\ pc' = "for"
    /\ UNCHANGED <<name, budget, wishlist, op, arg, result, pre_full, calls>>

\* lines 118-119
Assign ==
    /\ pc = "while"
    /\ rand # Person
    /\ people_ids' = ListRemove(people_ids, rand)
    /\ pointer' = Put(pointer, Person, rand)
    /\ it' = it + 1
    /\ rand' = None
    /\ pc' = "for"
    /\ UNCHANGED <<name, budget, people, wishlist, op, arg, result, pre_full, calls>>

\* line 120 (and line 87 when remove_user made the call)
Return ==
    /\ pc = "for"
    /\ it > Len(pointer)
    /\ pc' = "idle"
    /\ result' = "True"
    /\ NoLocals
    /\ UNCHANGED <<name, budget, people, wishlist, pointer, op, arg, pre_full, calls>>

\* the arguments of set_pointer: every dict from ids to ids or None
PointerMaps == UNION {[K -> Ids \cup {None}] : K \in SUBSET Ids}

RECURSIVE Sorted(_)
Sorted(S) ==
    IF S = {} THEN << >>
    ELSE LET m == CHOOSE x \in S : \A y \in S : x <= y
         IN  <<m>> \o Sorted(S \ {m})

MkDict(ord, f) == [i \in 1..Len(ord) |-> <<ord[i], f[ord[i]]>>]

\* the insertion orders of an argument that matter: all of them when the
\* argument is accepted, one when it is rejected and dropped
Orders(f) ==
    IF is_valid_pointer(Self, MkDict(Sorted(DOMAIN f), f))
    THEN Perms(DOMAIN f)
    ELSE {Sorted(DOMAIN f)}

SetPointer(new_pointer) ==
    /\ Call("set_pointer", None)
    /\ Commit(set_pointer(Self, new_pointer).self)
    /\ result' = set_pointer(Self, new_pointer).ret
    /\ UNCHANGED <<pc, people_ids, it, rand>>

\* save_exchange followed by load_exchange (secret_santa_utilities.py, 68-70)
LoadExchange ==
    /\ Call("load_exchange", None)
    /\ Commit(load_exchange(to_dict(Self)))
    /\ result' = "SecretSanta"
    /\ UNCHANGED <<pc, people_ids, it, rand>>

Next ==
    \/ \E user \in Names, user_id \in Ids : AddUser(user, user_id)
    \/ \E user_id \in Ids, wish \in Wishes : AddWish(user_id, wish)
    \/ \E user_id \in Ids : RemoveUser(user_id)
    \/ RandomizePointer
    \/ Choice
    \/ RaiseIndexError
    \/ Redraw
    \/ Assign
    \/ Return
    \/ \E f \in PointerMaps : \E ord \in Orders(f) : SetPointer(MkDict(ord, f))
    \/ LoadExchange

Spec == Init /\ [][Next]_vars

\* randomize_pointer draws with random.choice: a draw that can leave the
\* while loop is not avoided for ever
FairSpec == Spec /\ WF_vars(Choice) /\ WF_vars(RaiseIndexError) /\ SF_vars(Redraw)
                 /\ WF_vars(Assign) /\ WF_vars(Return)

TypeOK ==
    /\ pc \in {"idle", "for", "while"}
    /\ Keys(people) \subseteq Ids
    /\ Keys(pointer) \subseteq Ids
    /\ Values(pointer) \subseteq Ids \cup {None}
    /\ calls \in 0..MaxCalls

\* ------------------------------------------------- loading any snapshot
\* the wishlists found in a saved file
SavedWishlists == {<< >>, <<"Gold earrings", "Love book">>}

\* json.load of a file in the format of to_dict: three tables with the same
\* keys, the decimal strings of ids, in any order, with any names, and with
\* any id or null as pointer value
SnapshotsOver(K) ==
    {[name |-> n,
      budget |-> [type |-> "float", val |-> 20],
      people |-> [i \in 1..Len(ord) |-> <<Str(ord[i]), nm[ord[i]]>>],
      wishlist |-> [i \in 1..Len(ord) |-> <<Str(ord[i]), wl[ord[i]]>>],
      pointer |-> [i \in 1..Len(ord) |-> <<Str(ord[i]), pt[ord[i]]>>]] :
        n \in ExchangeNames, ord \in Perms(K), nm \in [K -> Names],
        wl \in [K -> SavedWishlists], pt \in [K -> Ids \cup {None}]}

\* load_exchange up to line 33: the file is read, the exchange is created
InitLoad ==
    /\ \E K \in SUBSET Ids : \E d \in SnapshotsOver(K) :
          /\ arg = d
          /\ name = NewSecretSanta(d.name, d.budget).name
          /\ budget = NewSecretSanta(d.name, d.budget).budget
          /\ people = NewSecretSanta(d.name, d.budget).people
          /\ wishlist = NewSecretSanta(d.name, d.budget).wishlist
          /\ pointer = NewSecretSanta(d.name, d.budget).pointer
    /\ pc = "idle"
    /\ people_ids = << >>
    /\ it = 0
    /\ rand = None
    /\ op = "__init__"
    /\ result = "None"
    /\ pre_full = FALSE
    /\ calls = 0

\* load_exchange, lines 34-46, on the snapshot read
LoadSnapshot ==
    /\ pc = "idle"
    /\ op = "__init__"
    /\ Commit(load_exchange(arg))
    /\ op' = "load_exchange"
    /\ result' = "SecretSanta"
    /\ UNCHANGED <<pc, people_ids, it, rand, arg, pre_full, calls>>

NextLoad == LoadSnapshot

SpecLoad == InitLoad /\ [][NextLoad]_vars

\* ----------------------------------------------------------------- claims
\* p is a fixed-point-free permutation of the set S
Derangement(p, S) ==
    /\ Keys(p) = S
    /\ Len(p) = Cardinality(S)
    /\ \A i \in 1..Len(p) : p[i][2] \in S /\ p[i][2] # p[i][1]
    /\ \A v \in S : Cardinality({i \in 1..Len(p) : p[i][2] = v}) = 1

Returned(o) == op = o /\ pc = "idle"

\* C1: whenever a call of randomize_pointer returns True, the pointer is a
\* total function from the registered ids to themselves, maps no id to
\* itself and takes every registered id as a value exactly once
C1_RandomizeGivesDerangement ==
    (Returned("randomize_pointer") /\ result = "True")
        => Derangement(pointer, Keys(people))

C1_Witness ==
    /\ Returned("randomize_pointer")
    /\ result = "True"
    /\ Keys(people) = Ids

\* C2: in a call of randomize_pointer on a roster with at least one
\* participant, the person being assigned always has a recipient left in the
\* pool: the pool is not empty and does not hold that person alone
C2_RandomizeNeverStuck ==
    (op = "randomize_pointer" /\ pc \in {"for", "while"}
     /\ people # << >> /\ it <= Len(pointer))
        => (people_ids # << >> /\ Elems(people_ids) # {Person})

\* C3: remove_user of a registered id, called with every pointer entry set,
\* ends with the pointer a derangement of the remaining participants
C3_RemoveRederanges ==
    (Returned("remove_user") /\ result # "False" /\ pre_full)
        => (result = "True" /\ Derangement(pointer, Keys(people)))

\* C4: remove_user of a registered id returns True with the id no longer
\* registered; it never raises and its loop never gets stuck
C4_RemoveReturnsTrue ==
    (op = "remove_user" /\ result # "False")
        => /\ result \in {"running", "True"}
           /\ pc = "idle" => arg \notin Keys(people)
           /\ (pc = "for" /\ it <= Len(pointer)) => people_ids # << >>
           /\ pc = "while" => Elems(people_ids) # {Person}

\* C5: between calls, the keys of the pointer and the keys of the wishlist
\* table are exactly the registered ids
C5_KeySetsAreParticipants ==
    pc = "idle" => /\ Keys(pointer) = Keys(people)
                   /\ DOMAIN wishlist = Keys(people)

\* C6: add_user with the name of a registered participant returns False and
\* changes neither the participants nor the wishlists nor the pointer
C6_DuplicateNameRejected ==
    [][\A user \in Names, user_id \in Ids :
          (AddUser(user, user_id) /\ user \in Values(people))
              => (result' = "False" /\ UNCHANGED <<people, wishlist, pointer>>)]_vars

\* C7: after every completed call the pointer is entirely unset or entirely
\* set
C7_AllOrNothing ==
    (pc = "idle" /\ result # "IndexError")
        => (Values(pointer) \subseteq {None} \/ None \notin Values(pointer))

\* C8: between calls, every pointer entry that is set names a registered
\* participant other than the entry's own key
C8_EntriesNameOtherParticipants ==
    pc = "idle" =>
        \A i \in 1..Len(pointer) :
            pointer[i][2] # None =>
                (pointer[i][2] \in Keys(people) /\ pointer[i][2] # pointer[i][1])

\* what C9 forbids in an argument of set_pointer
BadArgument(m) ==
    \/ Keys(m) # Keys(people)
    \/ \E i \in 1..Len(m) : m[i][1] = m[i][2]

\* C9: set_pointer returns False and leaves the pointer as it was for every
\* argument whose keys are not the registered ids and for every argument
\* that maps a key to itself.  A call that returns True has installed its
\* argument, which is then pointer'; a call that returns False must have
\* left the pointer alone
C9_SetPointerRejects ==
    [][(pc = "idle" /\ op' = "set_pointer") =>
          /\ (SetPointer(pointer') /\ BadArgument(pointer')) => result' = "False"
          /\ result' = "False" => pointer' = pointer]_vars

\* a dict as a mapping, its insertion order forgotten
AsMap(d) == [k \in Keys(d) |-> Get(d, k)]

\* C10: between calls, loading the snapshot that to_dict makes of the roster
\* gives the same name, budget, participant names, wishlists and pointer
\* mapping
C10_RoundTrip ==
    pc = "idle" =>
        LET loaded == load_exchange(to_dict(Self))
        IN  /\ loaded.name = name
            /\ loaded.budget = budget
            /\ AsMap(loaded.people) = AsMap(people)
            /\ \A k \in Keys(people) : loaded.wishlist[k] = wishlist[k]
            /\ AsMap(loaded.pointer) = AsMap(pointer)

\* C11: remove_user with an id that is not registered returns False at once
\* and leaves the participants, the wishlists and the pointer as they were
C11_RemoveUnknownChangesNothing ==
    [][\A user_id \in Ids :
          (RemoveUser(user_id) /\ user_id \notin Keys(people))
              => /\ result' = "False"
                 /\ pc' = "idle"
                 /\ UNCHANGED <<name, budget, people, wishlist, pointer>>]_vars

C11_Witness ==
    /\ Returned("remove_user")
    /\ result = "False"
    /\ Full(pointer)
    /\ Len(people) = 2

IsPrefix(s, t) == Len(s) <= Len(t) /\ SubSeq(t, 1, Len(s)) = s

\* C12: add_wish with a registered id puts the wish at the end of that
\* participant's wishlist and changes nothing else; with an id that is not
\* registered it changes nothing
C12_AddWishAppends ==
    [][\A user_id \in Ids, wish \in Wishes :
          AddWish(user_id, wish) =>
              /\ UNCHANGED <<name, budget, people, pointer>>
              /\ DOMAIN wishlist' = DOMAIN wishlist
              /\ \A k \in DOMAIN wishlist :
                    wishlist'[k] = IF k = user_id /\ user_id \in Keys(people)
                                   THEN Append(wishlist[k], wish)
                                   ELSE wishlist[k]]_vars

C12_Witness ==
    /\ Returned("add_wish")
    /\ arg \in Keys(people)
    /\ Len(wishlist[arg]) = 2
    /\ wishlist[arg][1] # wishlist[arg][2]

\* the fixed-point-free permutations of the registered ids, as dicts
DerangementsOfPeople ==
    {MkDict(Sorted(Keys(people)), f) : f \in
        {g \in [Keys(people) -> Keys(people)] :
            Derangement(MkDict(Sorted(Keys(people)), g), Keys(people))}}

\* C13: set_pointer returns True exactly for the fixed-point-free
\* permutations of the registered ids, and then the pointer is the argument.
\* A call that returns True has installed its argument, which is pointer'
C13_SetPointerAcceptsExactlyDerangements ==
    [][(pc = "idle" /\ op' = "set_pointer") =>
          /\ result' = "True" =>
                (SetPointer(pointer') /\ Derangement(pointer', Keys(people)))
          /\ \A m \in DerangementsOfPeople : set_pointer(Self, m).ret = "True"]_vars

\* the pointer of ppl with every entry unset
AllNone(ppl) == [i \in 1..Len(ppl) |-> <<ppl[i][1], None>>]

\* C14: between calls, set_pointer accepts the mapping of the registered
\* ids with every value None, and rejects one with only some values None
C14_AllNoneIsValid ==
    pc = "idle" =>
        /\ set_pointer(Self, AllNone(people)).ret = "True"
        /\ \A f \in [Keys(people) -> Ids \cup {None}] :
              (None \in {f[k] : k \in Keys(people)}
               /\ {f[k] : k \in Keys(people)} # {None})
                  => set_pointer(Self, MkDict(Sorted(Keys(people)), f)).ret = "False"

\* C15: over any step that leaves an id registered, its earlier wishlist is
\* a prefix of its later one, and the wishlist differs only when the step is
\* add_wish on that id
C15_WishlistOnlyGrows ==
    [][\A k \in Keys(people) \cap Keys(people') :
          /\ IsPrefix(wishlist[k], wishlist'[k])
          /\ wishlist'[k] # wishlist[k] => (op' = "add_wish" /\ arg' = k)]_vars

\* the participants and the pointer a snapshot holds, keys parsed
SavedPeople(d) == [i \in 1..Len(d.people) |-> <<Int_(d.people[i][1]), d.people[i][2]>>]

SavedPointer(d) ==
    [i \in 1..Len(d.people) |-> <<Int_(d.people[i][1]), Get(d.pointer, d.people[i][1])>>]

\* the saved pointer fails the validation of the exchange it was saved for
FailsValidation(d) ==
    ~is_valid_pointer([pointer |-> AllNone(SavedPeople(d))], SavedPointer(d))

\* C16: loading a snapshot whose pointer fails validation gives an exchange
\* with the snapshot's participants and wishlists and every pointer entry
\* unset
C16_InvalidPointerDropped ==
    (op = "load_exchange" /\ FailsValidation(arg))
        => /\ people = SavedPeople(arg)
           /\ DOMAIN wishlist = Keys(people)
           /\ \A i \in 1..Len(arg.wishlist) :
                 wishlist[Int_(arg.wishlist[i][1])] = arg.wishlist[i][2]
           /\ pointer = AllNone(people)

C16_Witness ==
    /\ op = "load_exchange"
    /\ FailsValidation(arg)
    /\ Keys(people) = Ids
    /\ \E i \in 1..Len(arg.pointer) : Str(arg.pointer[i][2]) = arg.pointer[i][1]
    /\ \E k \in Ids : wishlist[k] # << >>

\* C17: no step of a call of randomize_pointer, from the call to its return,
\* changes the participants, a wishlist, the name, the budget or the keys of
\* the pointer
C17_RandomizeChangesOnlyPointerValues ==
    [][op' = "randomize_pointer" =>
          /\ UNCHANGED <<name, budget, people, wishlist>>
          /\ Keys(pointer') = Keys(pointer)
          /\ Len(pointer') = Len(pointer)]_vars

C17_Witness ==
    /\ Returned("randomize_pointer")
    /\ result = "True"
    /\ Len(people) = 2
    /\ Full(pointer)
    /\ \E k \in Keys(people) : wishlist[k] # << >>

====
